---- MODULE Spec2Model ----
(***************************************************************************)
(* Client-side orchestration of the restaurant sales dashboard: the        *)
(* session container (AppContext), the upload widget (FileUpload), the     *)
(* router, and the fetch/retry controllers of the Forecast, Products and   *)
(* Report pages.                                                           *)
(*                                                                         *)
(* One page is mounted at a time (react-router Routes).  The page-local    *)
(* useState cells (loading, error, retryCount) belong to the mounted       *)
(* instance and are created afresh on every mount.  The state updates of   *)
(* one event handler, timer callback or promise continuation are committed *)
(* together and followed by one run of the effects whose dependencies      *)
(* changed, so every action below is one such continuation together with   *)
(* the effect run it causes.  A request or timer that outlives the         *)
(* instance that created it still completes: its setters of page-local     *)
(* state are no-ops, its setters of the session container are not.         *)
(***************************************************************************)
EXTENDS Integers, Sequences, FiniteSets, Bags, TLC

(* ------------------------------ bounds --------------------------------- *)
\* file ids the backend hands out (successful upload calls)
MaxUploads == 2
\* requests one mounted page instance may issue
MaxCalls == 5
\* requests whose issuing instance is gone and which are still unanswered
MaxOrphans == 1

(* --------------------------- program constants ------------------------- *)
\* the ceiling of the retry counter
RetryCeiling == 3

\* null, undefined and the empty string alike: every nullable cell holds a
\* sequence, and the empty one is the falsy value
NULL == <<>>

Routes == {"/", "/upload", "/forecast", "/products", "/report"}
DataPages == {"/forecast", "/products", "/report"}
RetryPages == {"/forecast", "/report"}

(* ------------------------------ messages ------------------------------- *)
\* A message is the sequence of its words; includes() is containment of a
\* contiguous run of words.
Includes(msg, pat) ==
    \E i \in 0..(Len(msg) - Len(pat)) : SubSeq(msg, i + 1, i + Len(pat)) = pat

NotBeenProcessedYet == <<"not", "been", "processed", "yet">>
NotBeenProcessed == <<"not", "been", "processed">>
RequiredAnalysis == <<"Required", "analysis">>

\* detail fields a failure response may carry
DetailNotProcessedYet == <<"Data", "has", "not", "been", "processed", "yet">>
DetailRequiredAnalysis == <<"Required", "analysis", "has", "not", "been", "processed">>
DetailServerError == <<"Internal", "server", "error">>
NoDetail == NULL
Details == {DetailNotProcessedYet, DetailRequiredAnalysis, DetailServerError, NoDetail}

ForecastFallback ==
    <<"Failed", "to", "load", "forecast", "data.", "The", "server", "may", "still",
      "be", "processing", "your", "data.", "Please", "try", "again.">>
ReportFallback ==
    <<"Failed", "to", "generate", "AI", "business", "report.", "The", "server", "may",
      "still", "be", "processing", "your", "data.", "Please", "try", "again.">>
ProductsError == <<"Failed", "to", "load", "product", "data.", "Please", "try", "again.">>

ErrorMessage_AlwaysFallback(p, detail) ==
    CASE p = "/forecast" -> ForecastFallback
      [] p = "/report"   -> ReportFallback
      [] OTHER           -> ProductsError
ErrorMessage_NoFallback(p, detail) == detail
\* err.response?.data?.detail || fallback
ErrorMessage(p, detail) ==
    CASE p = "/forecast" -> IF detail # NoDetail THEN detail ELSE ForecastFallback
      [] p = "/report"   -> IF detail # NoDetail THEN detail ELSE ReportFallback
      [] OTHER           -> ProductsError

VARIABLES
    fileId, isProcessing, forecastData, productsData, reportData,
    route,
    loading, error, retryCount,
    inFlight, orphans, timers,
    file, uploadError, success, uploadCall, uploads,
    calls, clicks, timerCalls, autoRetries,
    script,
    exports, reportLines, yPosition, pdf, productDetails, csvContent,
    report, parsedReport, pc, index

\* the state of the export utilities and of the report's JSON round trip
util == <<exports, reportLines, yPosition, pdf, productDetails, csvContent,
          report, parsedReport, pc, index>>
session == <<fileId, isProcessing, forecastData, productsData, reportData>>
local == <<loading, error, retryCount>>
widget == <<file, uploadError, success>>
history == <<calls, clicks, timerCalls, autoRetries>>
vars == <<fileId, isProcessing, forecastData, productsData, reportData, route,
          loading, error, retryCount, inFlight, orphans, timers,
          file, uploadError, success, uploadCall, uploads,
          calls, clicks, timerCalls, autoRetries, script, util>>

(* ------------------------------ payloads ------------------------------- *)
\* the decoded body of a successful response for file id fid
Payload(fid) == <<"payload", fid>>
\* the k-th file id the backend hands out
FileId(k) == <<"file", k>>

Cached(p) ==
    CASE p = "/forecast" -> forecastData
      [] p = "/products" -> productsData
      [] p = "/report"   -> reportData
      [] OTHER           -> NULL

\* a request the mounted instance issued: the file id and the retry counter
\* its closure captured, and its index among the requests of this instance
Request(fid, rc, n) == [fileId |-> fid, retryCount |-> rc, n |-> n]
\* a request whose issuing instance has unmounted
Orphan(p, fid) == [page |-> p, fileId |-> fid]

(* --------------------------- fetch controllers ------------------------- *)
ForecastShouldFetch_IgnoresCache(fid, data, rc) == fid # NULL
ForecastShouldFetch_NeedsRetry(fid, data, rc) == fid # NULL /\ rc > 0
ForecastShouldFetch_Stale(fid, data, rc) ==
    fid # NULL /\ (data # Payload(fid) \/ rc > 0)
ForecastShouldFetch(fid, data, rc) == fid # NULL /\ (data = NULL \/ rc > 0)
ReportShouldFetch(fid, data, rc) == fid # NULL /\ (data = NULL \/ rc > 0)
ProductsShouldFetch(fid, data) == fid # NULL /\ data = NULL

ShouldFetch(p, fid, data, rc) ==
    CASE p = "/forecast" -> ForecastShouldFetch(fid, data, rc)
      [] p = "/report"   -> ReportShouldFetch(fid, data, rc)
      [] p = "/products" -> ProductsShouldFetch(fid, data)
      [] OTHER           -> FALSE

ForecastShouldRetry_OneRetry(msg, rc) ==
    Includes(msg, NotBeenProcessedYet) /\ rc < 1
ForecastShouldRetry_NoCeiling(msg, rc) ==
    Includes(msg, NotBeenProcessedYet)
ForecastShouldRetry(msg, rc) ==
    Includes(msg, NotBeenProcessedYet) /\ rc < RetryCeiling
ReportShouldRetry_NoCeiling(msg, rc) ==
    Includes(msg, NotBeenProcessed) \/ Includes(msg, RequiredAnalysis)
ReportShouldRetry(msg, rc) ==
    (Includes(msg, NotBeenProcessed) \/ Includes(msg, RequiredAnalysis)) /\ rc < RetryCeiling

ShouldRetry_EveryPage(p, msg, rc) ==
    CASE p = "/forecast" -> ForecastShouldRetry(msg, rc)
      [] p = "/report"   -> ReportShouldRetry(msg, rc)
      [] OTHER           -> rc < RetryCeiling
ShouldRetry(p, msg, rc) ==
    CASE p = "/forecast" -> ForecastShouldRetry(msg, rc)
      [] p = "/report"   -> ReportShouldRetry(msg, rc)
      [] OTHER           -> FALSE

\* which of the three returns of the component's render applies
View ==
    IF route \notin DataPages THEN "page"
    ELSE IF loading THEN "loading"
    ELSE IF error # NULL THEN "error"
    ELSE "content"

\* the "Retrying... (Attempt n/3)" line of the loading view; 0 when not shown
AttemptShown ==
    IF route \in RetryPages /\ loading /\ retryCount > 0 THEN retryCount ELSE 0

RetryOffered_AtCeiling ==
    route \in RetryPages /\ View = "error" /\ retryCount <= RetryCeiling
\* the Retry button of the error view
RetryOffered ==
    route \in RetryPages /\ View = "error" /\ retryCount < RetryCeiling

Store_ClearsOthers(p, v) ==
    /\ forecastData' = IF p = "/forecast" THEN v ELSE NULL
    /\ productsData' = IF p = "/products" THEN v ELSE NULL
    /\ reportData' = IF p = "/report" THEN v ELSE NULL
\* the setter of the session field of page p
Store(p, v) ==
    /\ forecastData' = IF p = "/forecast" THEN v ELSE forecastData
    /\ productsData' = IF p = "/products" THEN v ELSE productsData
    /\ reportData' = IF p = "/report" THEN v ELSE reportData

\* fetchData as run by the effect after a commit: it starts a request when
\* its guard holds and otherwise leaves the committed state alone
FetchData(fetch, keptLoading, keptError, kept) ==
    /\ fetch => calls < MaxCalls
    /\ loading' = (fetch \/ keptLoading)
    /\ error' = IF fetch THEN NULL ELSE keptError
    /\ inFlight' = IF fetch
                   THEN kept \cup {Request(fileId', retryCount', calls + 1)}
                   ELSE kept
    /\ calls' = IF fetch THEN calls + 1 ELSE calls

\* no export utility is running
UtilIdle ==
    /\ exports = NULL /\ reportLines = NULL /\ yPosition = 0 /\ pdf = NULL
    /\ productDetails = NULL /\ csvContent = NULL
    /\ report = NULL /\ parsedReport = NULL /\ pc = "idle" /\ index = 0

Init ==
    /\ fileId = NULL /\ isProcessing = FALSE
    /\ forecastData = NULL /\ productsData = NULL /\ reportData = NULL
    /\ route \in {"/", "/upload"}
    /\ loading = FALSE /\ error = NULL /\ retryCount = 0
    /\ inFlight = {} /\ orphans = EmptyBag /\ timers = 0
    /\ file = NULL /\ uploadError = NULL /\ success = NULL
    /\ uploadCall = [stage |-> "idle", live |-> FALSE, file_id |-> NULL]
    /\ uploads = 0
    /\ calls = 0 /\ clicks = 0 /\ timerCalls = 0 /\ autoRetries = 0
    /\ script = NULL
    /\ UtilIdle

(* ------------------------------- router -------------------------------- *)
Abandon_Cancels(p, reqs) == EmptyBag
\* the requests of the instance that unmounts stay unanswered
Abandon(p, reqs) ==
    [k \in {Orphan(p, r.fileId) : r \in reqs} |->
        Cardinality({r \in reqs : Orphan(p, r.fileId) = k})]

Redirect_None(target, fid) == target
\* the redirect effect of the data pages: navigate('/upload') while fileId is
\* unset; the Dashboard and the Upload page have none
Redirect(target, fid) ==
    IF target \in DataPages /\ fid = NULL THEN "/upload" ELSE target

\* A route change: the mounted page unmounts, the target mounts with fresh
\* local state, its redirect effect sends it to /upload while fileId is
\* unset, and its fetch effect runs.
Navigate(target) ==
    LET dest == Redirect(target, fileId)
        fetch == ShouldFetch(dest, fileId, Cached(dest), 0)
    IN  /\ target # route
        /\ BagCardinality(orphans) + Cardinality(inFlight) <= MaxOrphans
        /\ route' = dest
        /\ orphans' = orphans (+) Abandon(route, inFlight)
        /\ timers' = 0
        /\ retryCount' = 0
        /\ loading' = fetch
        /\ error' = NULL
        /\ inFlight' = IF fetch THEN {Request(fileId, 0, 1)} ELSE {}
        /\ calls' = IF fetch THEN 1 ELSE 0
        /\ clicks' = 0 /\ timerCalls' = 0 /\ autoRetries' = 0
        /\ file' = NULL /\ uploadError' = NULL /\ success' = NULL
        /\ uploadCall' = [uploadCall EXCEPT !.live = FALSE]
        /\ UNCHANGED <<session, uploads, script, util>>

(* --------------------------- retry and settle -------------------------- *)
\* the callback of the 2-second timer: setRetryCount(prev => prev + 1)
TimerFires ==
    /\ timers > 0
    /\ timers' = timers - 1
    /\ retryCount' = retryCount + 1
    /\ UNCHANGED session
    /\ FetchData(ShouldFetch(route, fileId', Cached(route), retryCount'),
                 loading, error, inFlight)
    /\ timerCalls' = timerCalls + 1
    /\ autoRetries' = autoRetries + 1
    /\ UNCHANGED <<route, orphans, widget, uploadCall, uploads, clicks, script, util>>

\* the Retry button of the error view
ClickRetry ==
    /\ RetryOffered
    /\ retryCount' = retryCount + 1
    /\ UNCHANGED session
    /\ FetchData(ShouldFetch(route, fileId', Cached(route), retryCount'),
                 loading, error, inFlight)
    /\ clicks' = clicks + 1
    /\ UNCHANGED <<route, orphans, timers, widget, uploadCall, uploads,
                   timerCalls, autoRetries, script, util>>

\* a request of the mounted instance resolves
SettleOk(r) ==
    /\ r \in inFlight
    /\ Store(route, Payload(r.fileId))
    /\ retryCount' = 0
    /\ UNCHANGED <<fileId, isProcessing, route>>
    /\ FetchData(ShouldFetch(route, fileId', Cached(route)', retryCount'),
                 FALSE, error, inFlight \ {r})
    /\ autoRetries' = 0
    /\ UNCHANGED <<orphans, timers, widget, uploadCall, uploads,
                   clicks, timerCalls, script, util>>

\* a request of the mounted instance rejects; detail is the response's detail
\* field, NoDetail when it has none (or there is no response)
SettleFail(r, detail) ==
    LET msg == ErrorMessage(route, detail)
    IN  /\ r \in inFlight
        /\ inFlight' = inFlight \ {r}
        /\ error' = msg
        /\ loading' = FALSE
        /\ timers' = IF ShouldRetry(route, msg, r.retryCount) THEN timers + 1 ELSE timers
        /\ UNCHANGED <<session, route, retryCount, orphans, widget, uploadCall,
                       uploads, history, script, util>>

\* whether storing v changes the payload dependency of the effect of page p:
\* forecastData and productsData hold a freshly decoded object, reportData a
\* string, which compares by value and may or may not repeat the stored one
DependencyChanged(p, v) ==
    IF p = "/report" /\ reportData = v THEN {TRUE, FALSE} ELSE {TRUE}

\* a request of an unmounted instance resolves: the session field is written,
\* and a mounted instance of the same page sees its dependency change
OrphanOk(o) ==
    /\ BagIn(o, orphans)
    /\ orphans' = orphans (-) SetToBag({o})
    /\ Store(o.page, Payload(o.fileId))
    /\ UNCHANGED <<fileId, isProcessing, retryCount, route>>
    /\ \E changed \in DependencyChanged(o.page, Payload(o.fileId)) :
          FetchData(/\ o.page = route /\ changed
                    /\ ShouldFetch(route, fileId', Cached(route)', retryCount'),
                    loading, error, inFlight)
    /\ autoRetries' = IF o.page = route THEN 0 ELSE autoRetries
    /\ UNCHANGED <<timers, widget, uploadCall, uploads, clicks, timerCalls, script, util>>

\* a request of an unmounted instance rejects: every setter it calls, and the
\* timer it may arm, belongs to the unmounted instance
OrphanFail(o) ==
    /\ BagIn(o, orphans)
    /\ orphans' = orphans (-) SetToBag({o})
    /\ UNCHANGED <<session, route, local, inFlight, timers, widget, uploadCall,
                   uploads, history, script, util>>

(* ---------------------------- upload widget ---------------------------- *)
FileNames == {<<"sales", ".csv">>, <<"report", ".pdf">>}
EndsWithCsv_Any(name) == Len(name) > 0
EndsWithCsv(name) == Len(name) > 0 /\ name[Len(name)] = ".csv"

PleaseUploadCsv == <<"Please upload a CSV file">>
PleaseSelectFile == <<"Please select a file first">>
UploadFailed == <<"Error uploading or processing file. Please try again.">>
UploadedProcessing == <<"File uploaded successfully. Processing data...">>
ProcessedOk == <<"Data processed successfully!">>

handleFileChange(name) ==
    /\ route = "/upload"
    /\ IF ~EndsWithCsv(name)
       THEN uploadError' = PleaseUploadCsv /\ file' = NULL
       ELSE file' = name /\ uploadError' = NULL
    /\ UNCHANGED <<session, route, local, inFlight, orphans, timers, success,
                   uploadCall, uploads, history, script, util>>

\* the upload button is disabled while no file is selected or a sequence runs
UploadEnabled_IgnoresProcessing == route = "/upload" /\ file # NULL
UploadEnabled == route = "/upload" /\ file # NULL /\ ~isProcessing

\* handleUpload up to its first await
handleUpload ==
    /\ UploadEnabled
    /\ IF file = NULL
       THEN /\ uploadError' = PleaseSelectFile
            /\ UNCHANGED <<isProcessing, uploadCall>>
       ELSE /\ isProcessing' = TRUE
            /\ uploadError' = NULL
            /\ uploadCall' = [stage |-> "upload", live |-> TRUE, file_id |-> NULL]
    /\ UNCHANGED <<fileId, forecastData, productsData, reportData, route, local,
                   inFlight, orphans, timers, file, success, uploads, history, script, util>>

\* the upload call resolves with a fresh file_id: handleUpload runs to its
\* second await
UploadOk ==
    /\ uploadCall.stage = "upload"
    /\ uploads < MaxUploads
    /\ uploads' = uploads + 1
    /\ uploadCall' = [uploadCall EXCEPT !.stage = "process", !.file_id = FileId(uploads + 1)]
    /\ success' = IF uploadCall.live THEN UploadedProcessing ELSE success
    /\ UNCHANGED <<session, route, local, inFlight, orphans, timers, file,
                   uploadError, history, script, util>>

UploadOrProcessFail_ClearsFileId ==
    /\ uploadCall.stage \in {"upload", "process"}
    /\ uploadCall' = [stage |-> "idle", live |-> FALSE, file_id |-> NULL]
    /\ uploadError' = IF uploadCall.live THEN UploadFailed ELSE uploadError
    /\ isProcessing' = FALSE
    /\ fileId' = NULL
    /\ UNCHANGED <<forecastData, productsData, reportData, route, local,
                   inFlight, orphans, timers, file, success, uploads, history, script, util>>
\* either call rejects: catch and finally
UploadOrProcessFail ==
    /\ uploadCall.stage \in {"upload", "process"}
    /\ uploadCall' = [stage |-> "idle", live |-> FALSE, file_id |-> NULL]
    /\ uploadError' = IF uploadCall.live THEN UploadFailed ELSE uploadError
    /\ isProcessing' = FALSE
    /\ UNCHANGED <<fileId, forecastData, productsData, reportData, route, local,
                   inFlight, orphans, timers, file, success, uploads, history, script, util>>

\* the process call resolves: setFileId, then finally; a mounted data page
\* sees fileId change and its fetch effect runs again
ProcessOk ==
    /\ uploadCall.stage = "process"
    /\ fileId' = uploadCall.file_id
    /\ isProcessing' = FALSE
    /\ success' = IF uploadCall.live THEN ProcessedOk ELSE success
    /\ uploadCall' = [stage |-> "idle", live |-> FALSE, file_id |-> NULL]
    /\ UNCHANGED <<forecastData, productsData, reportData, retryCount>>
    /\ FetchData(ShouldFetch(route, fileId', Cached(route), retryCount'),
                 loading, error, inFlight)
    /\ UNCHANGED <<route, orphans, timers, file, uploadError, uploads,
                   clicks, timerCalls, autoRetries, script, util>>

(* ---------------------------- specification ---------------------------- *)
Next ==
    \/ \E target \in Routes : Navigate(target)
    \/ \E name \in FileNames : handleFileChange(name)
    \/ handleUpload
    \/ UploadOk
    \/ UploadOrProcessFail
    \/ ProcessOk
    \/ TimerFires
    \/ ClickRetry
    \/ \E r \in inFlight : SettleOk(r)
    \/ \E r \in inFlight, detail \in Details : SettleFail(r, detail)
    \/ \E o \in BagToSet(orphans) : OrphanOk(o)
    \/ \E o \in BagToSet(orphans) : OrphanFail(o)

Spec == Init /\ [][Next]_vars

(* ------------------- scripted Forecast endpoint ------------------------ *)
\* The Forecast endpoint rejects the first two calls with the detail held in
\* script and resolves every later one; the user reaches the Forecast page with
\* no upload running and then leaves the page alone.
ScenarioDetails == {DetailNotProcessedYet, DetailRequiredAnalysis}

InitScenario ==
    /\ Init!1 /\ Init!2 /\ Init!3 /\ Init!4 /\ Init!5 /\ Init!6
    /\ Init!7 /\ Init!8 /\ Init!9
    /\ script \in ScenarioDetails
    /\ UtilIdle

ScriptedSettle(r) ==
    IF r.n <= 2 THEN SettleFail(r, script) ELSE SettleOk(r)

ScenarioNavigate(target) ==
    /\ route # "/forecast"
    /\ target \in {"/", "/upload", "/forecast"}
    /\ target = "/forecast" => uploadCall.stage = "idle"
    /\ Navigate(target)

NextScenario ==
    \/ \E target \in Routes : ScenarioNavigate(target)
    \/ \E name \in FileNames : handleFileChange(name)
    \/ handleUpload
    \/ UploadOk
    \/ UploadOrProcessFail
    \/ ProcessOk
    \/ TimerFires
    \/ \E r \in inFlight : ScriptedSettle(r)

SpecScenario == InitScenario /\ [][NextScenario]_vars

(* ------------------------- notions of the claims ----------------------- *)
\* the not-ready phrases of section 4.1 of the specification, taken together
Recognized(msg) ==
    \/ Includes(msg, <<"not", "been", "processed">>)
    \/ Includes(msg, <<"Required", "analysis">>)
    \/ Includes(msg, <<"not", "been", "processed", "yet">>)

\* the phrases each page tests for
PageRecognizes(p, msg) ==
    \/ p = "/forecast" /\ Includes(msg, <<"not", "been", "processed", "yet">>)
    \/ p = "/report" /\ (\/ Includes(msg, <<"not", "been", "processed">>)
                         \/ Includes(msg, <<"Required", "analysis">>))

\* this step starts a request
Issues == (route' = route /\ calls' = calls + 1) \/ (route' # route /\ calls' = 1)

\* unanswered requests of page p, whichever instance issued them
Unanswered(p) ==
    (IF route = p THEN Cardinality(inFlight) ELSE 0)
    + BagCardinality([o \in {k \in BagToSet(orphans) : k.page = p} |-> orphans[o]])

\* this step is taken by the user on the mounted page or the router
UserStep == ClickRetry \/ \E target \in Routes : Navigate(target)

(* -------------------------------- C3 ----------------------------------- *)
\* the page has come to rest on the Forecast route
ForecastAtRest == route = "/forecast" /\ inFlight = {} /\ timers = 0

\* three calls, the second and third started by a timer, and the content view
ScenarioOutcome ==
    /\ calls = 3 /\ timerCalls = 2 /\ clicks = 0
    /\ forecastData # NULL /\ error = NULL /\ ~loading /\ retryCount = 0
    /\ View = "content"

\* C3 (as stated): when the Forecast endpoint answers the first two calls with
\* detail "Required analysis has not been processed" and the third with 200,
\* the page comes to rest only after 2 timer-driven retries and 3 calls, in
\* the success view with forecastData set and no error.
C3_Original ==
    (script = DetailRequiredAnalysis /\ ForecastAtRest) => ScenarioOutcome

\* C3 (amended): the same with detail "Data has not been processed yet", the
\* phrase the Forecast page tests for; until the page is at rest every call
\* after the first is started by a timer and there are at most 3 calls.
C3_Amended ==
    (script = DetailNotProcessedYet /\ route = "/forecast") =>
        /\ calls = timerCalls + 1 /\ calls <= 3 /\ Cardinality(inFlight) <= 1
        /\ ForecastAtRest => ScenarioOutcome

C3_Witness ==
    script = DetailNotProcessedYet /\ ForecastAtRest /\ ScenarioOutcome

(* -------------------------------- C1 ----------------------------------- *)
\* what the firing of a retry timer does: the counter goes up by exactly 1,
\* exactly one request is added to those in flight, and the loading view
\* shows the new counter as the attempt
TimerEffect ==
    TimerFires =>
        /\ retryCount' = retryCount + 1
        /\ inFlight \subseteq inFlight'
        /\ Cardinality(inFlight' \ inFlight) = 1
        /\ loading' /\ AttemptShown' = retryCount'

\* C1 (as stated): on the Forecast and Report pages every failure whose
\* message contains one of the not-ready phrases, while the retry counter is
\* below 3, arms exactly one timer; the timer's firing adds 1 to the counter,
\* starts exactly one request and the attempt shown equals the counter.
C1_Original ==
    [][ /\ \A r \in inFlight, detail \in Details :
              ( /\ SettleFail(r, detail)
                /\ route \in RetryPages
                /\ Recognized(ErrorMessage(route, detail))
                /\ retryCount < RetryCeiling )
              => timers' = timers + 1
        /\ TimerEffect ]_vars

\* C1 (amended): a failure of a request of the mounted Forecast page arms
\* exactly one timer when its message contains "not been processed yet", one
\* of the mounted Report page when it contains "not been processed" or
\* "Required analysis", in both cases provided the counter value the request
\* was issued under is below 3, and arms none otherwise; a timer firing on
\* the mounted page adds 1 to the counter, starts exactly one request, and
\* the attempt shown while it loads equals the counter.
C1_Amended ==
    [][ /\ \A r \in inFlight, detail \in Details :
              (SettleFail(r, detail) /\ route \in RetryPages)
              => timers' = timers +
                     (IF /\ PageRecognizes(route, ErrorMessage(route, detail))
                         /\ r.retryCount < RetryCeiling
                      THEN 1 ELSE 0)
        /\ TimerEffect ]_vars

\* a timer has fired on the Report page, its request failed with "Required
\* analysis has not been processed", and the next timer is armed
C1_Witness ==
    /\ route = "/report" /\ timerCalls = 1 /\ retryCount = 1
    /\ error = DetailRequiredAnalysis /\ timers = 1 /\ inFlight = {}

(* -------------------------------- C2 ----------------------------------- *)
\* the error view shows a failure that is not to be retried automatically
TerminalError ==
    /\ route \in RetryPages /\ View = "error"
    /\ retryCount >= RetryCeiling \/ ~PageRecognizes(route, error)

\* C2: once a request of the Forecast or Report page has failed at counter 3
\* or with a message that matches no not-ready phrase, no request is started
\* and the error view stays until the user clicks Retry or navigates.
C2_NoAutomaticRetry ==
    [][ TerminalError => (UserStep \/ (~Issues /\ View' = "error")) ]_vars

(* -------------------------------- C4 ----------------------------------- *)
\* C4: at most one request of a page is unanswered at any time, whichever
\* instance of the page issued it.
C4_OneInFlight == \A p \in DataPages : Unanswered(p) <= 1

(* -------------------------------- C5 ----------------------------------- *)
\* C5: within one page a request starts only when the previous one has
\* settled and no retry delay is still running, the step of the elapsed
\* timer itself excepted.
C5_Serialized ==
    [][ (route' = route /\ Issues) =>
            /\ inFlight = {}
            /\ timers = 0 \/ (timers = 1 /\ TimerFires) ]_vars

(* -------------------------------- C6 ----------------------------------- *)
\* C6: once a page's payload is stored in the session, no request for it is
\* started any more.
C6_SuccessTerminal ==
    [][ Issues => Cached(route') = NULL ]_vars

(* -------------------------------- C7 ----------------------------------- *)
\* C7: a page instance performs at most 3 timer-driven retries without a
\* success in between, and issues at most 4 requests while nothing was
\* stored for it and Retry was not clicked.
C7_BoundedRetries ==
    route \in RetryPages =>
        /\ autoRetries <= RetryCeiling
        /\ (clicks = 0 /\ Cached(route) = NULL) => calls <= RetryCeiling + 1

(* -------------------------------- C8 ----------------------------------- *)
\* C8: right after a request of the mounted page has resolved, the payload
\* is set, the retry counter is 0, the error is null and loading is false.
C8_AfterSuccess ==
    [][ \A r \in inFlight :
            SettleOk(r) =>
                /\ Cached(route)' # NULL
                /\ retryCount' = 0 /\ error' = NULL /\ loading' = FALSE ]_vars

(* -------------------------------- C9 ----------------------------------- *)
\* C9: a request is started only with fileId set and with the page's payload
\* absent or the retry counter above 0, and it carries that fileId; mounting
\* a page whose payload is cached, or with fileId unset, starts none.
C9_FetchGuard ==
    [][ /\ Issues =>
              /\ fileId' # NULL
              /\ route' \in DataPages
              /\ Cached(route)' = NULL \/ retryCount' > 0
              /\ \E r \in inFlight' : r.n = calls' /\ r.fileId = fileId'
        /\ \A target \in Routes :
              (Navigate(target) /\ (fileId = NULL \/ Cached(target) # NULL))
              => (~Issues /\ inFlight' = {} /\ ~loading') ]_vars

\* the Forecast page is mounted over a cached payload and has issued nothing
C9_Witness ==
    route = "/forecast" /\ forecastData # NULL /\ calls = 0 /\ inFlight = {} /\ ~loading

(* -------------------------------- C10 ---------------------------------- *)
\* C10 (as stated): in every terminal error state of a page (counter at 3,
\* or a message that matches no not-ready phrase) a Retry is offered.
C10_Original ==
    ( /\ route \in DataPages /\ View = "error"
      /\ retryCount >= RetryCeiling \/ ~PageRecognizes(route, error) )
    => RetryOffered

\* C10 (amended): the Forecast and Report pages offer Retry in every error
\* view whose counter is below 3, and clicking it adds 1 to the counter and
\* re-enters Loading with exactly one new request; at counter 3 or above,
\* and on the Products page, the error view offers no Retry.
C10_Amended ==
    /\ [](View = "error" =>
            (RetryOffered <=> (route # "/products" /\ retryCount <= 2)))
    /\ [][ ClickRetry =>
              /\ retryCount <= 2 /\ route # "/products" /\ ~loading /\ error # NULL
              /\ retryCount' = retryCount + 1
              /\ View' = "loading" /\ error' = NULL
              /\ Cardinality(inFlight' \ inFlight) = 1 ]_vars

\* Retry was clicked after a failure that matches no phrase and its request
\* is loading
C10_Witness ==
    /\ route = "/forecast" /\ clicks = 1 /\ timerCalls = 0 /\ calls = 2
    /\ View = "loading" /\ retryCount = 1 /\ timers = 0

(* -------------------------------- C11 ---------------------------------- *)
\* C11 (as stated): on each of the three data pages a failure reporting that
\* the data is not yet processed, of a request issued under a counter below
\* 3, arms an automatic retry.
C11_Original ==
    [][ \A r \in inFlight :
            ( /\ SettleFail(r, DetailNotProcessedYet)
              /\ route \in DataPages
              /\ r.retryCount < RetryCeiling )
            => timers' = timers + 1 ]_vars

\* C11 (amended): the Forecast and Report pages arm an automatic retry when
\* the backend reports "Data has not been processed yet" for a request issued
\* under a counter below 3 and arm none for a request issued under counter 3
\* or more; the Products page never arms one and never has one pending.
C11_Amended ==
    /\ [](route = "/products" => (timers = 0 /\ timerCalls = 0))
    /\ [][ \A r \in inFlight, detail \in Details :
              SettleFail(r, detail) =>
                /\ ( /\ route \in RetryPages
                     /\ detail = DetailNotProcessedYet
                     /\ r.retryCount < RetryCeiling ) => timers' = timers + 1
                /\ (route = "/products" \/ r.retryCount >= RetryCeiling)
                       => timers' = timers ]_vars

\* three automatic retries were made on the Forecast page and the fourth
\* failure armed no further one
C11_Witness ==
    /\ route = "/forecast" /\ timerCalls = 3 /\ clicks = 0 /\ calls = 4
    /\ retryCount = 3 /\ error = DetailNotProcessedYet
    /\ timers = 0 /\ inFlight = {} /\ ~loading

(* -------------------------------- C12 ---------------------------------- *)
\* the generic message of each page
Fallback(p) ==
    CASE p = "/forecast" -> ForecastFallback
      [] p = "/report"   -> ReportFallback
      [] OTHER           -> ProductsError

\* C12 (as stated): on each of the three data pages a failed request sets the
\* error to the detail field of the response when it carries one and to the
\* page's generic message only when it carries none.
C12_Original ==
    [][ \A r \in inFlight, detail \in Details :
            SettleFail(r, detail) =>
                error' = (IF detail # NoDetail THEN detail ELSE Fallback(route)) ]_vars

\* C12 (amended): on the Forecast and Report pages a failed request sets the
\* error to the detail field when the response carries a non-empty one and to
\* the page's generic message otherwise; on the Products page it always sets
\* "Failed to load product data. Please try again.".
C12_Amended ==
    [][ \A r \in inFlight, detail \in Details :
            SettleFail(r, detail) =>
                /\ route \in DataPages
                /\ route \in RetryPages =>
                      error' = (IF detail # NoDetail THEN detail ELSE Fallback(route))
                /\ route = "/products" => error' = ProductsError ]_vars

\* the Report page shows the detail of a failure that is not retried
C12_Witness ==
    /\ route = "/report" /\ error = DetailServerError /\ ~loading
    /\ timers = 0 /\ inFlight = {} /\ calls = 1

(* -------------------------------- C13 ---------------------------------- *)
\* the four session fields a failure must leave alone
SessionData == <<fileId, forecastData, productsData, reportData>>

\* C13: a failed request of the mounted page leaves that page not loading
\* and with a non-null error; a failed request of an unmounted instance leaves
\* the mounted page's local state alone; a failed upload or process call is
\* caught by the upload widget; none of them changes fileId, forecastData,
\* productsData or reportData.
C13_FailureCaught ==
    [][ /\ \A r \in inFlight, detail \in Details :
              SettleFail(r, detail) =>
                  /\ loading' = FALSE /\ error' # NULL
                  /\ View' = "error"
                  /\ r \notin inFlight'
                  /\ UNCHANGED SessionData
        /\ \A o \in BagToSet(orphans) :
              OrphanFail(o) => (UNCHANGED SessionData /\ UNCHANGED local)
        /\ UploadOrProcessFail =>
              (UNCHANGED SessionData /\ UNCHANGED local /\ ~isProcessing') ]_vars

\* the Products page shows the error of its only request, nothing stored
C13_Witness ==
    /\ route = "/products" /\ error = ProductsError /\ ~loading
    /\ productsData = NULL /\ calls = 1 /\ inFlight = {}

EndpointInvoked ==
    /\ uploadCall'.stage # uploadCall.stage
    /\ uploadCall'.stage \in {"upload", "process"}

\* the name ends in ".csv"
CsvName(name) == name # NULL /\ name[Len(name)] = ".csv"

\* the widget shows the rejection of a file that is not CSV
Rejected == route = "/upload" /\ file = NULL /\ uploadError = PleaseUploadCsv

\* C15 (as stated): selecting a file that is not CSV sets "Please upload a
\* CSV file" and clears the selected file, and from then until a CSV file is
\* selected neither the upload nor the process endpoint is invoked.
C15_Original ==
    [][ /\ \A name \in FileNames :
              (handleFileChange(name) /\ ~CsvName(name)) => Rejected'
        /\ Rejected => ~EndpointInvoked ]_vars

\* C15 (amended): selecting a file that is not CSV sets "Please upload a CSV
\* file", clears the selected file and invokes no endpoint; an upload
\* sequence starts only from the upload button with a CSV file selected, so
\* none starts until a CSV file is selected; a sequence already running goes
\* on to its process call.
C15_Amended ==
    /\ [](file # NULL => CsvName(file))
    /\ [][ /\ \A name \in FileNames :
                 (handleFileChange(name) /\ ~CsvName(name)) =>
                     (Rejected' /\ ~EndpointInvoked /\ UNCHANGED uploadCall)
           /\ (uploadCall'.stage = "upload" /\ uploadCall.stage # "upload") =>
                 (CsvName(file) /\ handleUpload)
           /\ (uploadCall'.stage = "process" /\ uploadCall.stage # "process") =>
                 (uploadCall.stage = "upload" /\ UploadOk) ]_vars

\* a file that is not CSV was selected after an upload had succeeded
C15_Witness ==
    Rejected /\ uploadCall.stage = "idle" /\ uploads = 1 /\ fileId = FileId(1)

(* -------------------------------- C16 ---------------------------------- *)
\* C16: fileId starts unset; it changes only when the process call of an
\* upload sequence succeeds, to the file_id the sequence's upload call
\* returned; a failure of either call leaves it alone; once set it is never
\* unset.
C16_FileIdLifecycle ==
    /\ [](uploads = 0 => fileId = NULL)
    /\ [](fileId # NULL => \E k \in 1..uploads : fileId = FileId(k))
    /\ [][ /\ fileId' # fileId =>
                 /\ ProcessOk /\ uploadCall.stage = "process"
                 /\ fileId' = uploadCall.file_id /\ fileId' # NULL
           /\ UploadOrProcessFail => fileId' = fileId
           /\ fileId # NULL => fileId' # NULL ]_vars

\* the second upload sequence failed and the first one's fileId is kept
C16_Witness ==
    /\ fileId = FileId(1) /\ uploads = 2 /\ uploadCall.stage = "idle"
    /\ uploadError = UploadFailed /\ ~isProcessing

(* -------------------------------- C17 ---------------------------------- *)
\* the session fields that page p's controller does not own
Others(p) ==
    CASE p = "/forecast" -> <<productsData, reportData, fileId, isProcessing>>
      [] p = "/products" -> <<forecastData, reportData, fileId, isProcessing>>
      [] p = "/report"   -> <<forecastData, productsData, fileId, isProcessing>>
      [] OTHER           -> session

\* C17: a step of a page's controller (mount, timer, Retry, a response to a
\* request of a mounted or unmounted instance) changes no session field
\* other than the page's own payload.
C17_OwnFieldOnly ==
    [][ \A p \in DataPages :
          /\ ( /\ route = p
               /\ \/ TimerFires \/ ClickRetry
                  \/ \E r \in inFlight :
                        SettleOk(r) \/ \E d \in Details : SettleFail(r, d) )
             => UNCHANGED Others(p)
          /\ (\E o \in BagToSet(orphans) : o.page = p /\ (OrphanOk(o) \/ OrphanFail(o)))
             => UNCHANGED Others(p)
          /\ Navigate(p) => UNCHANGED session ]_vars

\* forecast and report are stored, products is not, during an upload
C17_Witness ==
    /\ forecastData # NULL /\ reportData # NULL /\ productsData = NULL
    /\ isProcessing /\ fileId # NULL

(* -------------------------------- C18 ---------------------------------- *)
\* C18: a successful upload after the first changes fileId and leaves the
\* three payloads alone; a data page mounted over a cached payload starts no
\* request and shows that payload, whatever fileId it was fetched for.
C18_StaleCache ==
    [][ /\ ProcessOk =>
              /\ fileId' # fileId
              /\ UNCHANGED <<forecastData, productsData, reportData>>
        /\ \A t \in DataPages :
              (Navigate(t) /\ Cached(t) # NULL) =>
                  /\ route' = t /\ calls' = 0 /\ inFlight' = {}
                  /\ View' = "content" /\ Cached(t)' = Cached(t) ]_vars

\* the Forecast page shows the first file's payload under the second fileId
C18_Witness ==
    /\ route = "/forecast" /\ fileId = FileId(2) /\ forecastData = Payload(FileId(1))
    /\ calls = 0 /\ inFlight = {} /\ View = "content" /\ orphans = EmptyBag

(* -------------------------------- C19 ---------------------------------- *)
\* C19: a route change leaves every request of the unmounting page
\* unanswered, not cancelled; when such a request resolves, its payload, for
\* the fileId it was issued with, is written to the session field of its
\* page, whatever fileId is by then.
C19_LateResponse ==
    [][ /\ \A t \in Routes :
              Navigate(t) =>
                  /\ BagCardinality(orphans')
                        = BagCardinality(orphans) + Cardinality(inFlight)
                  /\ \A r \in inFlight : BagIn(Orphan(route, r.fileId), orphans')
        /\ \A o \in BagToSet(orphans) :
              OrphanOk(o) =>
                  /\ o.page = "/forecast" => forecastData' = Payload(o.fileId)
                  /\ o.page = "/products" => productsData' = Payload(o.fileId)
                  /\ o.page = "/report" => reportData' = Payload(o.fileId)
                  /\ fileId' = fileId ]_vars

\* a new Forecast instance waits for its only request, for the second file,
\* while forecastData holds the late response for the first file
C19_Witness ==
    /\ route = "/forecast" /\ fileId = FileId(2)
    /\ calls = 1 /\ inFlight = {Request(FileId(2), 0, 1)}
    /\ forecastData = Payload(FileId(1)) /\ orphans = EmptyBag

(* -------------------------------- C20 ---------------------------------- *)
\* C20 (as stated): while fileId is unset only the Upload page is displayed.
C20_Original == fileId = NULL => route = "/upload"

\* C20 (amended): while fileId is unset no data page (Forecast, Products,
\* Report) is displayed, mounting one redirects to the Upload page; the
\* Dashboard is displayed without redirect.
C20_Amended ==
    /\ [](fileId = NULL => route \in {"/", "/upload"})
    /\ [][ \A t \in Routes :
               (Navigate(t) /\ fileId = NULL) =>
                   /\ t \in DataPages => route' = "/upload"
                   /\ t \notin DataPages => route' = t
                   /\ calls' = 0 /\ inFlight' = {} ]_vars

\* the Dashboard is displayed, fileId unset, while an upload sequence started
\* on the Upload page is at its process call
C20_Witness ==
    route = "/" /\ fileId = NULL /\ uploadCall.stage = "process" /\ isProcessing

(* -------------------------------- C26 ---------------------------------- *)
\* C26: on the Forecast and Report pages the retry counter stays within
\* 0..3 and the attempt shown by the loading view never exceeds 3.
C26_CounterRange ==
    route \in RetryPages => (retryCount \in 0..RetryCeiling /\ AttemptShown <= RetryCeiling)

(* -------------------------------- C27 ---------------------------------- *)
\* C27: on a mounted data page loading is true exactly while a request of
\* that mount is unanswered.
C27_LoadingWhileInFlight ==
    route \in DataPages => (loading <=> inFlight # {})

(* -------------------------------- C29 ---------------------------------- *)
\* C29: an upload sequence starts only while none is running and
\* isProcessing is false; isProcessing is true exactly from the start of a
\* sequence until its upload or process call settles, with success or with
\* failure, and while it is true the upload action is disabled.
C29_OneUploadSequence ==
    /\ [](isProcessing <=> uploadCall.stage \in {"upload", "process"})
    /\ [](isProcessing => ~UploadEnabled)
    /\ [][ /\ handleUpload =>
                (~isProcessing /\ uploadCall.stage = "idle" /\ isProcessing')
           /\ (UploadOrProcessFail \/ ProcessOk) =>
                (isProcessing /\ ~isProcessing' /\ uploadCall'.stage = "idle")
           /\ UploadOk => (isProcessing /\ isProcessing') ]_vars

\* the Upload page is displayed with a file selected while a sequence that
\* was started on an earlier visit is at its process call
C29_Witness ==
    /\ route = "/upload" /\ file # NULL /\ isProcessing /\ ~UploadEnabled
    /\ uploadCall.stage = "process" /\ ~uploadCall.live

(* -------------------------------- C30 ---------------------------------- *)
\* C30: the upload widget never shows an error together with a success
\* message.
C30_ErrorExcludesSuccess ==
    uploadError # NULL => success = NULL

(* ======================= export utilities ============================== *)
\* the session, the router, the mounted page and the upload widget
app == <<fileId, isProcessing, forecastData, productsData, reportData, route,
         loading, error, retryCount, inFlight, orphans, timers,
         file, uploadError, success, uploadCall, uploads,
         calls, clicks, timerCalls, autoRetries, script>>

\* the application as it starts, on the Upload page
AppAtRest ==
    /\ Init!1 /\ Init!2 /\ route = "/upload" /\ Init!4 /\ Init!5 /\ Init!6
    /\ Init!7 /\ Init!8 /\ Init!9 /\ Init!10

(* ------------------- downloadAsPDF (snapshot export) ------------------- *)
\* snapshot exports that may run at the same time
MaxExports == 2
\* pixel widths and heights of the rasterized image
ImageSizes == {1, 2}

Element == <<"element">>
Titles == {NULL, <<"Product Details">>}
\* mm: width of a portrait page, its margins, and the y of title and image
PageWidth == 210
Margins == 20
TitleY == 15
ImageYWithTitle == 25
ImageYWithoutTitle == 10

\* one call of downloadAsPDF that has not started
NotCalled ==
    [at |-> "idle", element |-> NULL, title |-> NULL, img |-> NULL,
     doc |-> <<>>, loads |-> 0, saves |-> 0]

Rasterized_SavesAtOnce(x, w, h) ==
    [x EXCEPT !.at = "decoding",
              !.img = [width |-> w, height |-> h],
              !.doc = IF x.title # NULL THEN <<[op |-> "text", y |-> TitleY]>> ELSE <<>>,
              !.saves = 1]
\* toJpeg has resolved: the document is created, the title written, the
\* Image element given its src and its onload handler; nothing is saved
Rasterized(x, w, h) ==
    [x EXCEPT !.at = "decoding",
              !.img = [width |-> w, height |-> h],
              !.doc = IF x.title # NULL THEN <<[op |-> "text", y |-> TitleY]>> ELSE <<>>]

\* the onload handler: addImage, then save; the height is a ratio
Loaded(x) ==
    [x EXCEPT !.at = "saved",
              !.loads = x.loads + 1,
              !.doc = Append(x.doc,
                        [op |-> "image", x |-> 10,
                         y |-> IF x.title # NULL THEN ImageYWithTitle ELSE ImageYWithoutTitle,
                         w |-> PageWidth - Margins,
                         h |-> <<x.img.height * (PageWidth - Margins), x.img.width>>]),
              !.saves = x.saves + 1]

InitSnapshot ==
    /\ AppAtRest
    /\ exports = [i \in 1..MaxExports |-> NotCalled]
    /\ reportLines = NULL /\ yPosition = 0 /\ pdf = NULL
    /\ productDetails = NULL /\ csvContent = NULL
    /\ report = NULL /\ parsedReport = NULL /\ pc = "snapshot" /\ index = 0

SnapshotFrame ==
    UNCHANGED <<app, reportLines, yPosition, pdf, productDetails, csvContent,
                report, parsedReport, pc, index>>

\* the call up to its first await: a null element returns at once
downloadAsPDF(i, element, title) ==
    /\ exports[i].at = "idle"
    /\ exports' = [exports EXCEPT ![i] =
                     [@ EXCEPT !.at = IF element = NULL THEN "returned" ELSE "toJpeg",
                               !.element = element, !.title = title]]
    /\ SnapshotFrame

ToJpegResolves(i, w, h) ==
    /\ exports[i].at = "toJpeg"
    /\ exports' = [exports EXCEPT ![i] = Rasterized(@, w, h)]
    /\ SnapshotFrame

\* rasterization throws: the catch logs and the call returns
ToJpegRejects(i) ==
    /\ exports[i].at = "toJpeg"
    /\ exports' = [exports EXCEPT ![i].at = "caught"]
    /\ SnapshotFrame

\* the load event of the Image element
ImageLoad(i) ==
    /\ exports[i].at = "decoding"
    /\ exports' = [exports EXCEPT ![i] = Loaded(@)]
    /\ SnapshotFrame

\* the image fails to decode: there is no onerror handler
ImageError(i) ==
    /\ exports[i].at = "decoding"
    /\ exports' = [exports EXCEPT ![i].at = "neverLoaded"]
    /\ SnapshotFrame

NextSnapshot ==
    \/ \E i \in 1..MaxExports, element \in {NULL, Element}, title \in Titles :
          downloadAsPDF(i, element, title)
    \/ \E i \in 1..MaxExports, w \in ImageSizes, h \in ImageSizes : ToJpegResolves(i, w, h)
    \/ \E i \in 1..MaxExports : ToJpegRejects(i)
    \/ \E i \in 1..MaxExports : ImageLoad(i)
    \/ \E i \in 1..MaxExports : ImageError(i)

SpecSnapshot == InitSnapshot /\ [][NextSnapshot]_vars

(* -------------------------------- C21 ---------------------------------- *)
\* C21: in every call of downloadAsPDF the image is added and the document
\* saved only in the step of the image's load event, once per load; a call
\* with a null element, or whose rasterization throws, or whose image never
\* loads, saves nothing.
C21_SaveAfterLoad ==
    /\ [](\A i \in 1..MaxExports :
            /\ exports[i].saves = exports[i].loads /\ exports[i].saves <= 1
            /\ exports[i].at \in {"idle", "returned", "toJpeg", "caught",
                                  "decoding", "neverLoaded"} => exports[i].saves = 0
            /\ exports[i].saves = 1 =>
                  (exports[i].element # NULL /\ exports[i].doc # <<>>
                   /\ exports[i].doc[Len(exports[i].doc)].op = "image"))
    /\ [][ \A i \in 1..MaxExports :
              exports'[i].saves # exports[i].saves =>
                  /\ exports[i].at = "decoding"
                  /\ exports'[i].loads = exports[i].loads + 1
                  /\ exports'[i].saves = exports[i].saves + 1 ]_vars

\* one export with a title is saved with title and image; another, started
\* on a null element, has returned
C21_Witness ==
    /\ exports[1].at = "saved" /\ exports[1].saves = 1 /\ exports[1].loads = 1
    /\ Len(exports[1].doc) = 2
    /\ exports[2].at = "returned" /\ exports[2].saves = 0

(* --------------- downloadReportAsPDF (structured export) --------------- *)
\* items of the insights and of the recommendations list
MaxItems == 2
\* numbers of lines splitTextToSize may return for a text
SummaryLines == {1, 40}
ItemLines == {1, 20}
OutlookLines == {1, 10}

\* mm: the cursor after the divider, heading and line advance, the gaps, and
\* the two page-bottom thresholds
FirstY == 35
HeadingAdvance == 8
LineHeight == 6
SectionGap == 10
ItemGap == 5
PageBottom == 270
OutlookBottom == 240
NewPageY == 20
FooterY == 287

RECURSIVE SeqsUpTo(_, _)
\* the sequences over S of length at most n
SeqsUpTo(S, n) ==
    IF n = 0 THEN {<<>>}
    ELSE LET shorter == SeqsUpTo(S, n - 1)
         IN  shorter \cup {Append(q, x) : q \in {r \in shorter : Len(r) = n - 1}, x \in S}

\* pdf.text at the cursor of the current page
Text(doc, kind, y, lines) ==
    [doc EXCEPT !.texts = Append(@, [page |-> doc.page, y |-> y, kind |-> kind,
                                     lines |-> lines])]
\* pdf.addPage: the new page becomes the current one
AddPage(doc) == [doc EXCEPT !.pages = @ + 1, !.page = doc.pages + 1, !.added = @ + 1]

Footer_OfCurrentPage(doc, i, pageCount) ==
    [doc EXCEPT !.page = i,
                !.texts = Append(@, [page |-> i, y |-> FooterY, kind |-> "footer",
                                     lines |-> <<"Page", i, "of", i>>])]
\* pdf.setPage(i); pdf.text(`Page ${i} of ${pageCount}`, 105, 287)
Footer(doc, i, pageCount) ==
    [doc EXCEPT !.page = i,
                !.texts = Append(@, [page |-> i, y |-> FooterY, kind |-> "footer",
                                     lines |-> <<"Page", i, "of", pageCount>>])]

InitReportPdf ==
    /\ AppAtRest
    /\ reportLines \in [summary : SummaryLines,
                         insights : SeqsUpTo(ItemLines, MaxItems),
                         recommendations : SeqsUpTo(ItemLines, MaxItems),
                         future_outlook : OutlookLines]
    /\ pdf = [pages |-> 1, page |-> 1, added |-> 0, texts |-> <<>>, saves |-> 0,
              pageCount |-> 0]
    /\ yPosition = 0 /\ pc = "title" /\ index = 0
    /\ exports = NULL /\ productDetails = NULL /\ csvContent = NULL
    /\ report = NULL /\ parsedReport = NULL

ReportPdfFrame ==
    UNCHANGED <<app, reportLines, exports, productDetails, csvContent, report,
                parsedReport>>

\* title, date, divider; let yPosition = 35
WriteTitle ==
    /\ pc = "title"
    /\ pdf' = Text(Text(pdf, "title", 15, 1), "date", 22, 1)
    /\ yPosition' = FirstY
    /\ pc' = "summary" /\ index' = 0
    /\ ReportPdfFrame

\* 'Business Summary' and the summary; then the 'Key Insights' heading
WriteSummary ==
    LET y1 == yPosition + HeadingAdvance
        y2 == y1 + reportLines.summary * LineHeight + SectionGap
    IN  /\ pc = "summary"
        /\ pdf' = Text(Text(Text(pdf, "heading", yPosition, 1),
                             "summary", y1, reportLines.summary),
                        "heading", y2, 1)
        /\ yPosition' = y2 + HeadingAdvance
        /\ pc' = "insights" /\ index' = 1
        /\ ReportPdfFrame

\* one round of insights.forEach
WriteInsight ==
    /\ pc = "insights" /\ index <= Len(reportLines.insights)
    /\ pdf' = Text(pdf, "insights", yPosition, reportLines.insights[index])
    /\ yPosition' = yPosition + reportLines.insights[index] * LineHeight + ItemGap
    /\ index' = index + 1
    /\ UNCHANGED pc
    /\ ReportPdfFrame

\* after the insights: the gap and the 'Recommendations' heading
WriteRecommendationsHeading ==
    /\ pc = "insights" /\ index > Len(reportLines.insights)
    /\ pdf' = Text(pdf, "heading", yPosition + ItemGap, 1)
    /\ yPosition' = yPosition + ItemGap + HeadingAdvance
    /\ pc' = "recommendations" /\ index' = 1
    /\ ReportPdfFrame

\* one round of recommendations.forEach, with its page-break test
WriteRecommendation ==
    LET n == reportLines.recommendations[index]
        break == yPosition + n * LineHeight > PageBottom
        y == IF break THEN NewPageY ELSE yPosition
    IN  /\ pc = "recommendations" /\ index <= Len(reportLines.recommendations)
        /\ pdf' = Text(IF break THEN AddPage(pdf) ELSE pdf, "recommendations", y, n)
        /\ yPosition' = y + n * LineHeight + ItemGap
        /\ index' = index + 1
        /\ UNCHANGED pc
        /\ ReportPdfFrame

\* after the recommendations: the gap, the page-break test of the outlook,
\* its heading and its text; then pageCount is read
WriteOutlook ==
    LET y0 == yPosition + ItemGap
        break == y0 > OutlookBottom
        y == IF break THEN NewPageY ELSE y0
        doc == Text(Text(IF break THEN AddPage(pdf) ELSE pdf, "heading", y, 1),
                    "future_outlook", y + HeadingAdvance, reportLines.future_outlook)
    IN  /\ pc = "recommendations" /\ index > Len(reportLines.recommendations)
        /\ pdf' = [doc EXCEPT !.pageCount = doc.pages]
        /\ yPosition' = y + HeadingAdvance
        /\ pc' = "footers" /\ index' = 1
        /\ ReportPdfFrame

\* one round of the footer loop
WriteFooter ==
    /\ pc = "footers" /\ index <= pdf.pageCount
    /\ pdf' = Footer(pdf, index, pdf.pageCount)
    /\ index' = index + 1
    /\ UNCHANGED <<pc, yPosition>>
    /\ ReportPdfFrame

\* pdf.save
SaveReportPdf ==
    /\ pc = "footers" /\ index > pdf.pageCount
    /\ pdf' = [pdf EXCEPT !.saves = @ + 1]
    /\ pc' = "saved"
    /\ UNCHANGED <<index, yPosition>>
    /\ ReportPdfFrame

NextReportPdf ==
    \/ WriteTitle
    \/ WriteSummary
    \/ WriteInsight
    \/ WriteRecommendationsHeading
    \/ WriteRecommendation
    \/ WriteOutlook
    \/ WriteFooter
    \/ SaveReportPdf

SpecReportPdf == InitReportPdf /\ [][NextReportPdf]_vars

\* the texts of kind k, and the footers on page p
TextsOf(kinds) == {j \in 1..Len(pdf.texts) : pdf.texts[j].kind \in kinds}
FootersOn(p) == {j \in TextsOf({"footer"}) : pdf.texts[j].page = p}

(* -------------------------------- C22 ---------------------------------- *)
\* C22: no text of the four sections (summary, insights, recommendations,
\* outlook) is written with the cursor beyond the page-bottom threshold.
C22_NoTextBeyondThreshold ==
    \A j \in TextsOf({"summary", "insights", "recommendations", "future_outlook"}) :
        pdf.texts[j].y <= PageBottom

(* -------------------------------- C23 ---------------------------------- *)
\* C23: footers are written only after the outlook, one per round; when the
\* document is saved every page 1..Y carries exactly one footer, "Page X of
\* Y" with X the page and Y the final page count, 1 plus the page breaks;
\* the document is saved once, and nothing is written after the save.
C23_Footers ==
    /\ [](pc # "saved" => pdf.saves = 0)
    /\ [](pc \notin {"footers", "saved"} => TextsOf({"footer"}) = {})
    /\ [](pc = "saved" =>
            /\ pdf.saves = 1
            /\ pdf.pageCount = pdf.pages /\ pdf.pages = 1 + pdf.added
            /\ \A p \in 1..pdf.pages :
                  /\ Cardinality(FootersOn(p)) = 1
                  /\ \A j \in FootersOn(p) :
                        pdf.texts[j].lines = <<"Page", p, "of", pdf.pages>>
            /\ \A j \in TextsOf({"footer"}) : pdf.texts[j].page \in 1..pdf.pages
            /\ \A j \in TextsOf({"footer"}), k \in 1..Len(pdf.texts) :
                  pdf.texts[k].kind # "footer" => k < j)
    /\ [][ pc = "saved" => UNCHANGED pdf ]_vars

\* a saved document of three pages: both tests started a new page
C23_Witness ==
    pc = "saved" /\ pdf.saves = 1 /\ pdf.pages = 3 /\ pdf.added = 2

(* ---------------------- downloadProductsAsCSV -------------------------- *)
\* records in the product_details list
MaxProducts == 3

\* Texts are sequences of characters; numbers are kept in thousandths.
Nl == "\n"
Comma == ","
Quote == "\""

\* ProductDetail records as the backend may send them, in any order and with
\* repetitions; one name holds a comma and a quote
Products ==
    { [name |-> <<"T", "e", "a">>, category |-> <<"D">>,
       revenue |-> 12345, quantity |-> 3, percentage |-> 50004],
      [name |-> <<"A", ",", "\"", "B">>, category |-> <<"F", "o">>,
       revenue |-> 995, quantity |-> 10, percentage |-> 49996],
      [name |-> <<"P", "i", "e">>, category |-> <<"F", "o">>,
       revenue |-> 0, quantity |-> 0, percentage |-> 5] }

CsvHeader ==
    <<"Rank", Comma, "Name", Comma, "Category", Comma, "Revenue", Comma,
      "Quantity", Comma, "Contribution(%)", Nl>>

Digit(d) == <<"0", "1", "2", "3", "4", "5", "6", "7", "8", "9">>[d + 1]

RECURSIVE Decimal(_)
\* the decimal digits of a natural number, as a number is joined into a text
Decimal(n) == IF n < 10 THEN <<Digit(n)>> ELSE Append(Decimal(n \div 10), Digit(n % 10))

\* Number.prototype.toFixed(2) of x thousandths: rounded to hundredths, with
\* two decimals
ToFixed2(x) ==
    LET q == (x + 5) \div 10
    IN  Decimal(q \div 100) \o <<".", Digit((q % 100) \div 10), Digit(q % 10)>>

\* `"${text}"`
Quoted(text) == <<Quote>> \o text \o <<Quote>>

Row_ZeroBased(product, i) ==
    Decimal(i - 1) \o <<Comma>> \o Quoted(product.name) \o <<Comma>>
      \o Quoted(product.category) \o <<Comma>>
      \o ToFixed2(product.revenue) \o <<Comma>> \o Decimal(product.quantity)
      \o <<Comma>> \o ToFixed2(product.percentage)
\* the row of the i-th record (i = index + 1), its six fields joined by commas
Row(product, i) ==
    Decimal(i) \o <<Comma>> \o Quoted(product.name) \o <<Comma>>
      \o Quoted(product.category) \o <<Comma>>
      \o ToFixed2(product.revenue) \o <<Comma>> \o Decimal(product.quantity)
      \o <<Comma>> \o ToFixed2(product.percentage)

InitCsv ==
    /\ AppAtRest
    /\ productDetails \in SeqsUpTo(Products, MaxProducts)
    /\ csvContent = NULL /\ pc = "csv" /\ index = 0
    /\ exports = NULL /\ reportLines = NULL /\ yPosition = 0 /\ pdf = NULL
    /\ report = NULL /\ parsedReport = NULL

CsvFrame ==
    UNCHANGED <<app, productDetails, exports, reportLines, yPosition, pdf, report,
                parsedReport>>

\* let csvContent = header
WriteCsvHeader ==
    /\ pc = "csv"
    /\ csvContent' = CsvHeader
    /\ pc' = "rows" /\ index' = 1
    /\ CsvFrame

\* one round of productDetails.forEach
WriteCsvRow ==
    /\ pc = "rows" /\ index <= Len(productDetails)
    /\ csvContent' = csvContent \o Row(productDetails[index], index) \o <<Nl>>
    /\ index' = index + 1
    /\ UNCHANGED pc
    /\ CsvFrame

\* the Blob is made of csvContent and the link clicked
DownloadCsv ==
    /\ pc = "rows" /\ index > Len(productDetails)
    /\ pc' = "downloaded"
    /\ UNCHANGED <<csvContent, index>>
    /\ CsvFrame

NextCsv == WriteCsvHeader \/ WriteCsvRow \/ DownloadCsv

SpecCsv == InitCsv /\ [][NextCsv]_vars

(* -------------------------------- C24 ---------------------------------- *)
RECURSIVE LinesOf(_)
\* the newline-terminated lines of a text (without their newline), followed
\* by what is left after the last newline
LinesOf(text) ==
    IF \A j \in 1..Len(text) : text[j] # Nl THEN <<text>>
    ELSE LET j == CHOOSE k \in 1..Len(text) :
                      text[k] = Nl /\ \A m \in 1..(k - 1) : text[m] # Nl
         IN  <<SubSeq(text, 1, j - 1)>> \o LinesOf(SubSeq(text, j + 1, Len(text)))

\* line starts with prefix
StartsWith(line, prefix) ==
    Len(line) >= Len(prefix) /\ SubSeq(line, 1, Len(prefix)) = prefix

\* C24: the downloaded text is the header line followed by one line per
\* record, in the order of the input; the line of the i-th record starts with
\* i, then the record's name in double quotes, then its category in double
\* quotes; every line, the last one too, ends with a newline.
C24_CsvRows ==
    pc = "downloaded" =>
        LET lines == LinesOf(csvContent)
            n == Len(productDetails)
        IN  /\ Len(lines) = n + 2
            /\ lines[n + 2] = <<>>
            /\ lines[1] = <<"Rank", ",", "Name", ",", "Category", ",", "Revenue", ",",
                            "Quantity", ",", "Contribution(%)">>
            /\ \A i \in 1..n :
                  StartsWith(lines[i + 1],
                             <<Digit(i), ",", "\"">> \o productDetails[i].name
                               \o <<"\"", ",", "\"">> \o productDetails[i].category
                               \o <<"\"", ",">>)

\* three records, the second and third in the reverse of their revenue
\* order, exported
C24_Witness ==
    /\ pc = "downloaded" /\ Len(productDetails) = 3
    /\ productDetails[2].revenue < productDetails[3].revenue
    /\ productDetails[1] = productDetails[3]

(* ------------------ the report's JSON round trip ----------------------- *)
\* length of the texts of a report
MaxText == 2

Backslash == "\\"
\* the characters of a report's texts: a letter, a newline, a double quote
\* and a backslash
JsonChars == {"n", Nl, Quote, Backslash}
JsonTexts == SeqsUpTo(JsonChars, MaxText)
\* the texts list items are drawn from
ItemTexts == {<<"n">>, <<Backslash, "n">>, <<Quote, Comma>>}

\* the ReportPayload values the report endpoint may return
Reports ==
    [summary : JsonTexts,
     insights : SeqsUpTo(ItemTexts, MaxItems),
     recommendations : SeqsUpTo({<<"]">>, <<Nl>>, <<>>}, 1),
     future_outlook : {<<>>, <<Backslash, Backslash>>}]

EscapeChar_QuoteOnly(c) ==
    IF c = Quote THEN <<Backslash, Quote>>
    ELSE IF c = Nl THEN <<Backslash, "n">>
    ELSE <<c>>
\* JSON.stringify of one character of a string
EscapeChar(c) ==
    IF c = Quote THEN <<Backslash, Quote>>
    ELSE IF c = Backslash THEN <<Backslash, Backslash>>
    ELSE IF c = Nl THEN <<Backslash, "n">>
    ELSE <<c>>

RECURSIVE Escape(_)
Escape(text) == IF text = <<>> THEN <<>> ELSE EscapeChar(Head(text)) \o Escape(Tail(text))

JsonString(text) == <<Quote>> \o Escape(text) \o <<Quote>>

RECURSIVE JsonItems(_)
JsonItems(items) ==
    IF items = <<>> THEN <<>>
    ELSE IF Len(items) = 1 THEN JsonString(items[1])
    ELSE JsonString(items[1]) \o <<Comma>> \o JsonItems(Tail(items))

JsonArray(items) == <<"[">> \o JsonItems(items) \o <<"]">>

\* JSON.stringify(data.report): the members in the order of the object's keys
Stringify(r) ==
    <<"{">> \o JsonString(<<"summary">>) \o <<":">> \o JsonString(r.summary)
      \o <<Comma>> \o JsonString(<<"insights">>) \o <<":">> \o JsonArray(r.insights)
      \o <<Comma>> \o JsonString(<<"recommendations">>) \o <<":">>
      \o JsonArray(r.recommendations)
      \o <<Comma>> \o JsonString(<<"future_outlook">>) \o <<":">>
      \o JsonString(r.future_outlook) \o <<"}">>

\* the character an escape sequence stands for
Unescape(c) == IF c = "n" THEN Nl ELSE c

RECURSIVE ReadString(_, _)
\* reads a string whose opening quote has been consumed
ReadString(text, acc) ==
    IF Head(text) = Quote THEN [value |-> acc, rest |-> Tail(text)]
    ELSE IF Head(text) = Backslash
         THEN ReadString(Tail(Tail(text)), Append(acc, Unescape(text[2])))
         ELSE ReadString(Tail(text), Append(acc, Head(text)))

RECURSIVE ReadItems(_, _)
\* reads the items of an array whose opening bracket has been consumed
ReadItems(text, acc) ==
    IF Head(text) = "]" THEN [value |-> acc, rest |-> Tail(text)]
    ELSE LET item == ReadString(Tail(text), <<>>)
         IN  ReadItems(IF Head(item.rest) = Comma THEN Tail(item.rest) ELSE item.rest,
                       Append(acc, item.value))

ReadValue(text) ==
    IF Head(text) = "[" THEN ReadItems(Tail(text), <<>>) ELSE ReadString(Tail(text), <<>>)

RECURSIVE ReadMembers(_, _)
\* reads the members of an object whose opening brace has been consumed
ReadMembers(text, acc) ==
    IF Head(text) = "}" THEN acc
    ELSE LET key == ReadString(Tail(text), <<>>)
             member == ReadValue(Tail(key.rest))
         IN  ReadMembers(IF Head(member.rest) = Comma THEN Tail(member.rest)
                         ELSE member.rest,
                         acc @@ (key.value[1] :> member.value))

\* JSON.parse(reportData)
Parse(text) == ReadMembers(Tail(text), <<>>)

InitJson ==
    /\ AppAtRest
    /\ report \in Reports
    /\ parsedReport = NULL /\ pc = "fetched" /\ index = 0
    /\ exports = NULL /\ reportLines = NULL /\ yPosition = 0 /\ pdf = NULL
    /\ productDetails = NULL /\ csvContent = NULL

JsonFrame ==
    UNCHANGED <<fileId, isProcessing, forecastData, productsData, route,
                loading, error, retryCount, inFlight, orphans, timers,
                file, uploadError, success, uploadCall, uploads,
                calls, clicks, timerCalls, autoRetries, script,
                report, exports, reportLines, yPosition, pdf, productDetails,
                csvContent, index>>

\* setReportData(JSON.stringify(data.report))
StoreReport ==
    /\ pc = "fetched"
    /\ reportData' = Stringify(report)
    /\ pc' = "stored"
    /\ UNCHANGED parsedReport
    /\ JsonFrame

\* const parsedReport = JSON.parse(reportData), on render
ParseReport ==
    /\ pc = "stored"
    /\ parsedReport' = Parse(reportData)
    /\ pc' = "rendered"
    /\ UNCHANGED reportData
    /\ JsonFrame

NextJson == StoreReport \/ ParseReport

SpecJson == InitJson /\ [][NextJson]_vars

(* -------------------------------- C25 ---------------------------------- *)
\* C25: what the Report page decodes from the string stored in reportData
\* has the summary, the insights in their order, the recommendations in
\* their order and the future_outlook of the payload that was encoded.
C25_RoundTrip ==
    pc = "rendered" =>
        /\ DOMAIN parsedReport =
              {"summary", "insights", "recommendations", "future_outlook"}
        /\ parsedReport["summary"] = report.summary
        /\ parsedReport["insights"] = report.insights
        /\ parsedReport["recommendations"] = report.recommendations
        /\ parsedReport["future_outlook"] = report.future_outlook

\* a decoded report whose summary is a backslash followed by the letter n
\* and whose second insight holds a quote and a comma
C25_Witness ==
    /\ pc = "rendered" /\ report.summary = <<Backslash, "n">>
    /\ Len(report.insights) = 2 /\ report.insights[2] = <<Quote, Comma>>
    /\ parsedReport["insights"][2] = <<Quote, Comma>>
    /\ reportData # NULL

(* --------------------- one visit, fair scheduling ---------------------- *)
\* One visit of a data page: the user reaches it with no upload running,
\* stays on it, and clicks Retry only in an error view with no retry timer
\* pending.  Every request is answered (with success or any failure) and
\* every timer fires.
VisitNavigate(target) ==
    /\ route \notin DataPages
    /\ target \in DataPages => uploadCall.stage = "idle"
    /\ Navigate(target)

VisitClickRetry == timers = 0 /\ ClickRetry

Settles ==
    \E r \in inFlight : SettleOk(r) \/ \E detail \in Details : SettleFail(r, detail)

NextVisit ==
    \/ \E target \in Routes : VisitNavigate(target)
    \/ \E name \in FileNames : handleFileChange(name)
    \/ handleUpload
    \/ UploadOk
    \/ UploadOrProcessFail
    \/ ProcessOk
    \/ TimerFires
    \/ VisitClickRetry
    \/ Settles

SpecVisit ==
    Init /\ [][NextVisit]_vars /\ WF_vars(TimerFires) /\ WF_vars(Settles)

(* -------------------------------- C28 ---------------------------------- *)
\* no request unanswered, no timer pending, and the success or error view
Quiescent ==
    /\ inFlight = {} /\ timers = 0 /\ ~loading
    /\ \/ View = "error"
       \/ View = "content" /\ Cached(route) # NULL

====
